---- MODULE Spec2Model ----
(***************************************************************************)
(* Model of core/ocr.py: six field extractors layered over the Tesseract   *)
(* engine.  A call is a short run of engine invocations; every loop        *)
(* iteration of a retry ladder is one step.  Text is a sequence of         *)
(* one-character strings.  The engine is the environment: each invocation  *)
(* answers with some text (or token list), or raises.                      *)
(***************************************************************************)
EXTENDS Integers, Sequences, FiniteSets, TLC

\* ------------------------------------------------------------------ bounds
MaxLen == 2        \* longest text the engine answers with
MaxTokens == 3     \* longest token list image_to_data answers with

\* ------------------------------------------------------------ engine values
Alphabet == {"1", "O", "\n"}
\* the characters str.strip() removes (ASCII part)
Whitespace == {" ", "\t", "\n", "\r", "\f"}
Digits == {"0", "1", "2", "3", "4", "5", "6", "7", "8", "9"}

Strings == UNION {[1..n -> Alphabet] : n \in 0..MaxLen}

TokenTexts == {<<>>, <<" ">>, <<"1">>, <<" ", "O", "\n">>}
ConfValues == {0, 80, 90, 100}
Tokens == [text : TokenTexts, conf : ConfValues]
TokenLists == UNION {[1..n -> Tokens] : n \in 0..MaxTokens}

\* An engine answer: ok = FALSE is a raised exception.
Raised == [ok |-> FALSE, text |-> <<>>, toks |-> <<>>]
StringAnswers == {[ok |-> TRUE, text |-> s, toks |-> <<>>] : s \in Strings} \cup {Raised}
DataAnswers == {[ok |-> TRUE, text |-> <<>>, toks |-> t] : t \in TokenLists} \cup {Raised}

\* --------------------------------------------------------------- operations
SingleOps == {"extract_text", "extract_number"}
LadderOps == {"extract_turn_number", "extract_mood_text", "extract_failure_text"}
DataOps == {"extract_failure_text_with_confidence"}
Ops == SingleOps \cup LadderOps \cup DataOps

\* (variant: the failure-text list written in the mood order)
ConfigsSwapped(o) ==
  CASE o = "extract_text" -> <<6>>
    [] o = "extract_number" -> <<7>>
    [] o = "extract_turn_number" -> <<8, 7, 6>>
    [] o = "extract_mood_text" -> <<8, 7, 6>>
    [] o = "extract_failure_text" -> <<8, 7, 6, 13>>
    [] o = "extract_failure_text_with_confidence" -> <<6>>

\* The page-segmentation modes of each operation's config list, in order.
Configs(o) ==
  CASE o = "extract_text" -> <<6>>
    [] o = "extract_number" -> <<7>>
    [] o = "extract_turn_number" -> <<8, 7, 6>>
    [] o = "extract_mood_text" -> <<8, 7, 6>>
    [] o = "extract_failure_text" -> <<6, 7, 8, 13>>
    [] o = "extract_failure_text_with_confidence" -> <<6>>

\* (variant: one more fallback loop in extract_turn_number)
NumPassesThree(o) == IF o = "extract_turn_number" THEN 3 ELSE 1

\* Number of "for config in configs" loops in the operation.
NumPasses(o) == IF o = "extract_turn_number" THEN 2 ELSE 1

\* (variant: the try block closed before the fallback loop)
CaughtFirstLoopOnly(o, p) == p = 1

\* The try block spans the whole body: every engine invocation is covered.
Caught(o, p) == TRUE

\* ------------------------------------------------------------ str functions
RECURSIVE lstrip(_)
lstrip(s) == IF s # <<>> /\ Head(s) \in Whitespace THEN lstrip(Tail(s)) ELSE s

RECURSIVE rstrip(_)
rstrip(s) ==
  IF s # <<>> /\ s[Len(s)] \in Whitespace THEN rstrip(SubSeq(s, 1, Len(s) - 1)) ELSE s

\* (variant: rstrip() written for strip())
stripRightOnly(s) == rstrip(s)

\* str.strip()
strip(s) == rstrip(lstrip(s))

\* str.isdigit(): non-empty and every character a digit.
isdigit(s) == s # <<>> /\ \A i \in 1..Len(s) : s[i] \in Digits

\* ' '.join(parts)
RECURSIVE join(_)
join(parts) ==
  IF parts = <<>> THEN <<>>
  ELSE IF Len(parts) = 1 THEN parts[1]
  ELSE parts[1] \o <<" ">> \o join(Tail(parts))

\* sum(confidences)
RECURSIVE sum(_)
sum(cs) == IF cs = <<>> THEN 0 ELSE Head(cs) + sum(Tail(cs))

\* ------------------------------------------------------- acceptance tests
\* (variant: the isdigit() test left out)
FirstPassAcceptNoDigitTest(t) == t # <<>>

\* turn number, first loop: "if text and text.isdigit()"
FirstPassAccept(t) == t # <<>> /\ isdigit(t)

\* (variant: the isdigit() test repeated in the fallback loop)
SecondPassAcceptDigitTest(t) == t # <<>> /\ isdigit(t)

\* turn number, second loop: "if text"
SecondPassAccept(t) == t # <<>>

\* mood / failure loop: "if text"
NonEmptyAccept(t) == t # <<>>

Accept(o, p, t) ==
  IF o = "extract_turn_number"
  THEN IF p = 1 THEN FirstPassAccept(t) ELSE SecondPassAccept(t)
  ELSE NonEmptyAccept(t)

\* ------------------------------------------------------- confidence variant
\* (variant: "if text" without strip())
NonEmptyTokenNoStrip(tok) == tok.text # <<>>

\* "if text.strip()" on one token
NonEmptyToken(tok) == strip(tok.text) # <<>>

\* the loop over ocr_data['text']: text_parts and confidences
RECURSIVE text_parts(_)
text_parts(toks) ==
  IF toks = <<>> THEN <<>>
  ELSE (IF NonEmptyToken(Head(toks)) THEN <<Head(toks).text>> ELSE <<>>)
       \o text_parts(Tail(toks))

RECURSIVE confidences(_)
confidences(toks) ==
  IF toks = <<>> THEN <<>>
  ELSE (IF NonEmptyToken(Head(toks)) THEN <<Head(toks).conf>> ELSE <<>>)
       \o confidences(Tail(toks))

\* A confidence is the exact rational num/den.
ZeroConfidence == [num |-> 0, den |-> 1]

\* (variant: the division by 100.0 left out)
avg_confidence_unscaled(cs) == [num |-> sum(cs), den |-> Len(cs)]

\* sum(confidences) / len(confidences) / 100.0
avg_confidence(cs) == [num |-> sum(cs), den |-> Len(cs) * 100]

\* -------------------------------------------------------------------- state
VARIABLES
  pc,             \* "idle" before any call, "run" inside a call, "done" at return
  op,             \* the operation being called
  pass,           \* which loop of the operation is running
  idx,            \* position in configs
  text,           \* the latest image_to_string output, before strip()
  hist,           \* the engine invocations of this call, in order
  result,         \* returned text
  confidence,     \* returned confidence (confidence variant)
  propagated,     \* an exception escaped to the caller
  pil_img,        \* the image: what the engine recognises in it, per config index
  deterministic,  \* the engine answers the same for the same image and config
  again,          \* this call repeats the previous call on the same image
  prev_result,    \* what the previous call returned
  prev_confidence

vars == <<pc, op, pass, idx, text, hist, result, confidence, propagated, pil_img,
          deterministic, again, prev_result, prev_confidence>>

NoImage == [i \in {} |-> Raised]

\* (variant: the call overwrites the caller's image)
ImageAfterCallClobbered(img) == NoImage

\* The functions only read the image (np.array(pil_img)); it is the same
\* image after the call.
ImageAfterCall(img) == img

Init ==
  /\ pc = "idle"
  /\ op = "extract_text"
  /\ pass = 1
  /\ idx = 1
  /\ text = <<>>
  /\ hist = <<>>
  /\ result = <<>>
  /\ confidence = ZeroConfidence
  /\ propagated = FALSE
  /\ pil_img = NoImage
  /\ deterministic \in BOOLEAN
  /\ again = FALSE
  /\ prev_result = <<>>
  /\ prev_confidence = ZeroConfidence

\* The caller calls operation o on a new image.
Call(o) ==
  /\ pc # "run"
  /\ ~propagated
  /\ op' = o
  /\ pc' = "run"
  /\ pass' = 1
  /\ idx' = 1
  /\ text' = <<>>
  /\ hist' = <<>>
  /\ pil_img' = NoImage
  /\ deterministic' \in BOOLEAN
  /\ again' = FALSE
  /\ prev_result' = <<>>
  /\ prev_confidence' = ZeroConfidence
  /\ result' = <<>>
  /\ confidence' = ZeroConfidence
  /\ UNCHANGED propagated

\* The caller calls the same operation once more on the same image.
CallAgain ==
  /\ pc = "done"
  /\ ~propagated
  /\ deterministic
  /\ pc' = "run"
  /\ pass' = 1
  /\ idx' = 1
  /\ text' = <<>>
  /\ hist' = <<>>
  /\ pil_img' = ImageAfterCall(pil_img)
  /\ again' = TRUE
  /\ prev_result' = result
  /\ prev_confidence' = confidence
  /\ result' = <<>>
  /\ confidence' = ZeroConfidence
  /\ UNCHANGED <<op, deterministic, propagated>>

\* What the engine may answer for config index i.
Answers(all, i) ==
  IF deterministic /\ i \in DOMAIN pil_img THEN {pil_img[i]} ELSE all

Seen(i, r) == IF deterministic THEN (i :> r) @@ pil_img ELSE pil_img

Entry(r, t) ==
  [psm |-> Configs(op)[idx], pass |-> pass, ok |-> r.ok, text |-> t, toks |-> r.toks]

\* except Exception: print warning, return "" (or "", 0.0)
Except ==
  /\ pc' = "done"
  /\ IF Caught(op, pass)
     THEN result' = <<>> /\ confidence' = ZeroConfidence /\ propagated' = FALSE
     ELSE propagated' = TRUE /\ UNCHANGED <<result, confidence>>
  /\ UNCHANGED <<pass, idx>>

Return(t, c) ==
  /\ pc' = "done"
  /\ result' = t
  /\ confidence' = c
  /\ UNCHANGED <<pass, idx, propagated>>

\* extract_text / extract_number: one invocation, return text.strip()
InvokeSingle ==
  /\ pc = "run"
  /\ op \in SingleOps
  /\ \E r \in Answers(StringAnswers, idx) :
       /\ pil_img' = Seen(idx, r)
       /\ text' = r.text
       /\ hist' = Append(hist, Entry(r, strip(r.text)))
       /\ IF ~r.ok THEN Except ELSE Return(strip(r.text), ZeroConfidence)
  /\ UNCHANGED <<op, deterministic, again, prev_result, prev_confidence>>

\* one iteration of "for config in configs" in a retry ladder
InvokeLadder ==
  /\ pc = "run"
  /\ op \in LadderOps
  /\ \E r \in Answers(StringAnswers, idx) :
       LET stripped == strip(r.text) IN
       /\ pil_img' = Seen(idx, r)
       /\ text' = r.text
       /\ hist' = Append(hist, Entry(r, stripped))
       /\ IF ~r.ok THEN Except
          ELSE IF Accept(op, pass, stripped) THEN Return(stripped, ZeroConfidence)
          ELSE IF idx < Len(Configs(op))
            THEN /\ idx' = idx + 1
                 /\ UNCHANGED <<pc, pass, result, confidence, propagated>>
          ELSE IF pass < NumPasses(op)
            THEN /\ pass' = pass + 1
                 /\ idx' = 1
                 /\ UNCHANGED <<pc, result, confidence, propagated>>
          ELSE Return(<<>>, ZeroConfidence)
  /\ UNCHANGED <<op, deterministic, again, prev_result, prev_confidence>>

\* extract_failure_text_with_confidence: image_to_data, then the token loop
InvokeData ==
  /\ pc = "run"
  /\ op \in DataOps
  /\ \E r \in Answers(DataAnswers, idx) :
       LET parts == text_parts(r.toks)
           confs == confidences(r.toks)
       IN
       /\ pil_img' = Seen(idx, r)
       /\ text' = <<>>
       /\ hist' = Append(hist, Entry(r, <<>>))
       /\ IF ~r.ok THEN Except
          ELSE IF parts # <<>>
            THEN Return(strip(join(parts)), avg_confidence(confs))
          ELSE Return(<<>>, ZeroConfidence)
  /\ UNCHANGED <<op, deterministic, again, prev_result, prev_confidence>>

Next ==
  \/ \E o \in Ops : Call(o)
  \/ CallAgain
  \/ InvokeSingle
  \/ InvokeLadder
  \/ InvokeData

Spec == Init /\ [][Next]_vars

\* ------------------------------------------------------------------ claims
\* Vocabulary of the properties, independent of the str functions above.
Blanks == {" ", "\t", "\n"}
Digits09 == {"0", "1", "2", "3", "4", "5", "6", "7", "8", "9"}
AllDigits09(t) == \A i \in 1..Len(t) : t[i] \in Digits09
Qualifies(t) == t # <<>> /\ AllDigits09(t)
IsBlank(t) == \A i \in 1..Len(t) : t[i] \in Blanks

\* res is raw without its leading and trailing blanks
TrimOf(raw, res) ==
  IF IsBlank(raw) THEN res = <<>>
  ELSE \E i \in 1..Len(raw) : \E j \in i..Len(raw) :
         /\ res = SubSeq(raw, i, j)
         /\ raw[i] \notin Blanks
         /\ raw[j] \notin Blanks
         /\ \A k \in 1..Len(raw) : (k < i \/ k > j) => raw[k] \in Blanks

NoError == \A i \in 1..Len(hist) : hist[i].ok
Returned == pc = "done" /\ hist # <<>> /\ hist[Len(hist)].ok
TurnOrder == <<8, 7, 6>>
MoodOrder == <<8, 7, 6>>
FailureOrder == <<6, 7, 8, 13>>

\* C1: whenever an engine invocation of a call raises (the first, a later
\* ladder step, or a second-pass step), the call ends there, returns the
\* empty sentinel ("" / ("", 0.0)), and no exception reaches the caller.
C1_FailSoft ==
  /\ ~propagated
  /\ \A i \in 1..Len(hist) :
       ~hist[i].ok => /\ pc = "done"
                      /\ i = Len(hist)
                      /\ result = <<>>
                      /\ confidence = ZeroConfidence

\* C1 witness: the engine raises on the second step of the second pass of
\* extract_turn_number and the call returns "".
C1_Witness ==
  /\ pc = "done" /\ op = "extract_turn_number"
  /\ Len(hist) = 5 /\ hist[5].pass = 2 /\ ~hist[5].ok
  /\ result = <<>> /\ ~propagated

\* C2: extract_turn_number's first pass invokes psm 8, 7, 6 in that order;
\* a first-pass output that is non-empty and all digits (after trimming)
\* ends the call at once and is the result, no earlier output qualified,
\* and the call never returns from the first pass with anything else.
C2_FirstPass ==
  op = "extract_turn_number" =>
    /\ \A i \in 1..Len(hist) :
         hist[i].pass = 1 => i <= 3 /\ hist[i].psm = TurnOrder[i]
    /\ \A i \in 1..Len(hist) :
         (hist[i].pass = 1 /\ hist[i].ok /\ Qualifies(hist[i].text)) =>
            /\ pc = "done"
            /\ i = Len(hist)
            /\ result = hist[i].text
            /\ TrimOf(text, result)
            /\ \A j \in 1..(i - 1) : ~Qualifies(hist[j].text)
    /\ (Returned /\ hist[Len(hist)].pass = 1) => Qualifies(result)

\* C2 witness: profile 1 yields "1O", profile 2 yields "11": "11" returned
\* after two invocations.
C2_Witness ==
  /\ pc = "done" /\ op = "extract_turn_number"
  /\ Len(hist) = 2 /\ hist[1].text = <<"1", "O">>
  /\ result = <<"1", "1">>

\* C3: when no first-pass output qualifies (and the engine never raises),
\* extract_turn_number invokes psm 8, 7, 6 again and returns the first
\* non-empty trimmed output of that pass whatever its characters; it
\* returns "" only after three empty second-pass outputs.
C3_SecondPass ==
  (op = "extract_turn_number" /\ NoError) =>
    /\ \A i \in 1..Len(hist) :
         hist[i].pass = 2 =>
            /\ i \in 4..6
            /\ hist[i].psm = TurnOrder[i - 3]
            /\ \A j \in 1..3 : hist[j].pass = 1 /\ ~Qualifies(hist[j].text)
    /\ \A i \in 1..Len(hist) :
         (hist[i].pass = 2 /\ hist[i].text # <<>>) =>
            /\ pc = "done"
            /\ i = Len(hist)
            /\ result = hist[i].text
            /\ TrimOf(text, result)
    /\ (pc = "done" /\ \A j \in 1..Len(hist) : ~Qualifies(hist[j].text)) =>
          Len(hist) > 3
    /\ (pc = "done" /\ Len(hist) > 3 /\ result = <<>>) =>
          Len(hist) = 6 /\ \A i \in 4..6 : hist[i].text = <<>>

\* C3 witness: the first pass fails, the second pass gets nothing from
\* profile 1 and the non-digit "O" from profile 2, which is returned.
C3_Witness ==
  /\ pc = "done" /\ op = "extract_turn_number" /\ NoError
  /\ Len(hist) = 5 /\ hist[4].text = <<>>
  /\ result = <<"O">>

\* C4: extract_mood_text invokes psm 8, 7, 6 and extract_failure_text psm
\* 6, 7, 8, 13, in that order; the first non-empty trimmed output ends the
\* call and is the result; "" is returned exactly when every profile of the
\* list gave an empty trimmed output (engine never raising).
C4_FirstNonEmpty ==
  (op \in {"extract_mood_text", "extract_failure_text"} /\ NoError) =>
    LET order == IF op = "extract_mood_text" THEN MoodOrder ELSE FailureOrder
    IN
    /\ Len(hist) <= Len(order)
    /\ \A i \in 1..Len(hist) : hist[i].psm = order[i]
    /\ \A i \in 1..Len(hist) :
         hist[i].text # <<>> =>
            /\ pc = "done"
            /\ i = Len(hist)
            /\ result = hist[i].text
            /\ TrimOf(text, result)
    /\ pc = "done" =>
         (result = <<>> <=>
            (Len(hist) = Len(order) /\ \A i \in 1..Len(hist) : hist[i].text = <<>>))

\* C4 witness: extract_failure_text gets nothing from psm 6, 7, 8 and "O"
\* from psm 13.
C4_Witness ==
  /\ pc = "done" /\ op = "extract_failure_text" /\ NoError
  /\ Len(hist) = 4 /\ hist[4].psm = 13
  /\ result = <<"O">>

\* The kept tokens, their joined raw text and the sum of their confidences,
\* stated directly.
KeptTokens(toks) ==
  SelectSeq(toks, LAMBDA t : \E k \in 1..Len(t.text) : t.text[k] \notin Blanks)

RECURSIVE JoinedRaw(_)
JoinedRaw(ts) ==
  IF ts = <<>> THEN <<>>
  ELSE IF Len(ts) = 1 THEN ts[1].text
  ELSE JoinedRaw(SubSeq(ts, 1, Len(ts) - 1)) \o <<" ">> \o ts[Len(ts)].text

RECURSIVE ConfTotal(_)
ConfTotal(ts) ==
  IF ts = <<>> THEN 0 ELSE ConfTotal(SubSeq(ts, 1, Len(ts) - 1)) + ts[Len(ts)].conf

\* C5: extract_failure_text_with_confidence keeps exactly the tokens whose
\* trimmed text is non-empty, in engine order; the text is their raw texts
\* joined by single spaces, then trimmed; the confidence is the mean of the
\* kept confidences divided by 100; with no kept token the result is
\* exactly ("", 0.0).
C5_TokensAndConfidence ==
  (op = "extract_failure_text_with_confidence" /\ Returned) =>
    LET kept == KeptTokens(hist[1].toks) IN
    IF kept = <<>>
    THEN result = <<>> /\ confidence = ZeroConfidence
    ELSE /\ TrimOf(JoinedRaw(kept), result)
         /\ confidence.den > 0
         /\ confidence.num * 100 * Len(kept) = ConfTotal(kept) * confidence.den

\* C5 witness: tokens [("1", 90), ("", 0), (" O\n", 80)] give "1  O" and 0.85.
C5_Witness ==
  /\ pc = "done" /\ op = "extract_failure_text_with_confidence"
  /\ hist # <<>> /\ hist[1].ok
  /\ hist[1].toks = << [text |-> <<"1">>, conf |-> 90],
                       [text |-> <<>>, conf |-> 0],
                       [text |-> <<" ", "O", "\n">>, conf |-> 80] >>
  /\ result = <<"1", " ", " ", "O">>
  /\ confidence.num * 100 = 85 * confidence.den

\* C6: every non-empty string returned by extract_number, and every
\* non-empty string extract_turn_number returns from its first pass,
\* contains only the characters 0-9, whatever the engine answered.
C6_DigitOnly ==
  (/\ Returned
   /\ result # <<>>
   /\ \/ op = "extract_number"
      \/ op = "extract_turn_number" /\ hist[Len(hist)].pass = 1)
  => AllDigits09(result)

\* C7 as stated: no call makes more than 4 engine invocations.
C7_AtMostFour == Len(hist) <= 4

\* C7 amended: a call makes at most 1 invocation in extract_text,
\* extract_number and extract_failure_text_with_confidence, 3 in
\* extract_mood_text, 4 in extract_failure_text and 6 (two passes of 3) in
\* extract_turn_number.
C7_Bounded ==
  Len(hist) <= (CASE op \in {"extract_text", "extract_number",
                             "extract_failure_text_with_confidence"} -> 1
                  [] op = "extract_mood_text" -> 3
                  [] op = "extract_failure_text" -> 4
                  [] op = "extract_turn_number" -> 6)

\* C7 witness: extract_turn_number returns after six invocations.
C7_Witness ==
  pc = "done" /\ op = "extract_turn_number" /\ Len(hist) = 6 /\ hist[6].pass = 2

\* C8: the text returned by any of the six operations has no leading or
\* trailing space, tab or newline.
C8_Trimmed ==
  pc = "done" =>
    \/ result = <<>>
    \/ result[1] \notin Blanks /\ result[Len(result)] \notin Blanks

\* C8 witness: the confidence variant gets the tokens " O\n" and " " and
\* returns "O".
C8_Witness ==
  /\ pc = "done" /\ op = "extract_failure_text_with_confidence"
  /\ hist # <<>> /\ hist[1].ok
  /\ Len(hist[1].toks) = 2
  /\ hist[1].toks[1].text = <<" ", "O", "\n">>
  /\ hist[1].toks[2].text = <<" ">>
  /\ result = <<"O">>

\* C9: the confidence returned by extract_failure_text_with_confidence lies
\* in [0.0, 1.0] (token confidences being integers 0..100, or the engine
\* raising), and is 0.0 whenever the returned text is empty.
C9_ConfidenceRange ==
  (op = "extract_failure_text_with_confidence" /\ pc = "done") =>
    /\ confidence.den > 0
    /\ 0 <= confidence.num
    /\ confidence.num <= confidence.den
    /\ result = <<>> => confidence.num = 0

\* C9 witness: two kept tokens of confidence 100 give confidence 1.0.
C9_Witness ==
  /\ pc = "done" /\ op = "extract_failure_text_with_confidence"
  /\ hist # <<>> /\ hist[1].ok
  /\ Len(KeptTokens(hist[1].toks)) = 2
  /\ confidence.num = confidence.den

\* C10: with a deterministic engine, a second call of the same operation
\* on the same image returns what the first call returned.
C10_Idempotent ==
  (pc = "done" /\ again) =>
    /\ result = prev_result
    /\ confidence = prev_confidence
    /\ ~propagated

\* C10 witness: a repeated extract_turn_number call that went into its
\* second pass and returned a non-empty text.
C10_Witness ==
  /\ pc = "done" /\ again /\ op = "extract_turn_number"
  /\ Len(hist) = 5 /\ result # <<>>

====
